---- MODULE Spec2Model ----
(***************************************************************************)
(* Model of hooks/src/browser/scrapling_executor.py: main, execute and the *)
(* closure made by create_page_action.  The browser-automation library is  *)
(* the environment: each of its operations either returns or raises an     *)
(* Exception, and its fetchers decide when page_action is called.          *)
(***************************************************************************)
EXTENDS Integers, Sequences, FiniteSets, TLC

\* ------------------------------------------------------------------ bounds
\* Longest action list of a configuration.
MaxActions == 2
\* Most invocations of page_action a fetcher makes during one fetch.
MaxRuns == 2

\* --------------------------------------------------------------- constants
DefaultWaitMs == 1000
DefaultTimeout == 45000
MsPerSecond == 1000

VARIABLES
    args,        \* main: the parsed command line (argparse namespace)
    stdinDoc,    \* main: the JSON document waiting on stdin
    fileDoc,     \* main: the JSON document in the --config file
    source,      \* main: the branch that supplied config
    config,      \* main/execute: the configuration dict
    pc,          \* position in main / execute / the fetcher / page_action
    caller,      \* who invokes page_action: the library's fetcher or a direct caller
    actions,     \* create_page_action: the captured action list
    results,     \* create_page_action: the closure's results list
    returned,    \* identity of the list page_action last returned
    i,           \* page_action: the loop index of enumerate(actions)
    runs,        \* invocations of page_action so far
    trace,       \* page_action: calls on the page object and appends to results, in order
    fetchLog,    \* fetcher calls made by execute, with their keyword arguments
    response,    \* execute: the fetcher's response
    result,      \* execute: the dict it returned
    error,       \* the message of the Exception that left execute
    stdout,      \* what main printed to stdout
    stderr,      \* what main printed to stderr
    exitCode     \* the process's exit code

vars == <<args, stdinDoc, fileDoc, source, config, pc, caller, actions, results,
          returned, i, runs, trace, fetchLog, response, result, error, stdout,
          stderr, exitCode>>

mainVars == <<args, stdinDoc, fileDoc, source, stdout, stderr, exitCode>>
execVars == <<config, fetchLog, response, result, error>>
closureVars == <<actions, results, returned, i, runs, trace>>

\* ------------------------------------------------------------- JSON values
\* A JSON scalar as Python sees it after json.load: null, an int or a str.
Null == [t |-> "null", n |-> 0, s |-> ""]
JInt(k) == [t |-> "int", n |-> k, s |-> ""]
JStr(x) == [t |-> "str", n |-> 0, s |-> x]
JTrue == [t |-> "bool", n |-> 1, s |-> ""]

\* Python truthiness: None, 0 and "" are false.
Truthy(v) ==
    CASE v.t = "null" -> FALSE
      [] v.t \in {"int", "bool"} -> v.n # 0
      [] v.t = "str" -> v.s # ""

\* Decimal strings int() accepts, among the strings of the model.
Numerals == {"250"}
NumeralValue(s) == CASE s = "250" -> 250

\* int(value): an int is kept, a decimal string is parsed, any other string
\* raises ValueError.
PyInt(v) ==
    CASE v.t = "int" -> [ok |-> TRUE, n |-> v.n]
      [] v.t = "str" /\ v.s \in Numerals -> [ok |-> TRUE, n |-> NumeralValue(v.s)]
      [] OTHER -> [ok |-> FALSE, n |-> 0]

\* ------------------------------------------------------------ action steps
\* step.get('action') is None when the key is missing: the string "None".
RecognisedActions ==
    {"screenshot", "click", "fill", "type", "hover", "press", "select", "check",
     "uncheck", "wait", "wait_selector", "wait_url", "get_text", "get_attribute",
     "get_value", "list_elements", "evaluate", "go_back", "go_forward", "reload",
     "scroll", "focus", "blur", "drag", "upload_file", "get_url", "get_title"}

UnrecognisedActions == {"swipe", "None"}

MkStep(a, v, f) == [action |-> a, value |-> v, filename |-> f]

WaitValues == {JInt(0), JStr("250"), JStr("abc")}
Filenames == {JStr("shot.png"), JInt(7)}

\* Every action name with no value and no filename, 'wait' with each value,
\* 'screenshot' with each filename.
AllSteps ==
    {MkStep(a, Null, Null) : a \in RecognisedActions \cup UnrecognisedActions}
    \cup {MkStep("wait", v, Null) : v \in WaitValues}
    \cup {MkStep("screenshot", Null, f) : f \in Filenames}

\* The steps of the configurations execute and main are run on.
ConfigSteps ==
    {MkStep("click", Null, Null), MkStep("wait", JStr("abc"), Null),
     MkStep("swipe", Null, Null)}

SeqsUpTo(S, n) == UNION {[1..k -> S] : k \in 0..n}

\* --------------------------------------------------------- the dispatch table
\* The table with the get_title branch left out (a variant to test the claims
\* against).
PageOperationNoTitle(action) ==
    CASE action = "screenshot" -> "screenshot"
      [] action = "click" -> "click"
      [] action = "fill" -> "fill"
      [] action = "type" -> "type"
      [] action = "hover" -> "hover"
      [] action = "press" -> "press"
      [] action = "select" -> "select_option"
      [] action = "check" -> "check"
      [] action = "uncheck" -> "uncheck"
      [] action = "wait" -> "wait_for_timeout"
      [] action = "wait_selector" -> "wait_for_selector"
      [] action = "wait_url" -> "wait_for_url"
      [] action \in {"get_text", "get_attribute", "get_value", "list_elements",
                     "scroll", "blur"} -> "locator"
      [] action = "evaluate" -> "evaluate"
      [] action = "go_back" -> "go_back"
      [] action = "go_forward" -> "go_forward"
      [] action = "reload" -> "reload"
      [] action = "focus" -> "focus"
      [] action = "drag" -> "drag_and_drop"
      [] action = "upload_file" -> "set_input_files"
      [] action = "get_url" -> "url"
      [] OTHER -> "none"

\* The attribute of `page` the branch for `action` uses; "none" is the else
\* branch (Unknown action).
PageOperation(action) ==
    CASE action = "screenshot" -> "screenshot"
      [] action = "click" -> "click"
      [] action = "fill" -> "fill"
      [] action = "type" -> "type"
      [] action = "hover" -> "hover"
      [] action = "press" -> "press"
      [] action = "select" -> "select_option"
      [] action = "check" -> "check"
      [] action = "uncheck" -> "uncheck"
      [] action = "wait" -> "wait_for_timeout"
      [] action = "wait_selector" -> "wait_for_selector"
      [] action = "wait_url" -> "wait_for_url"
      [] action \in {"get_text", "get_attribute", "get_value", "list_elements",
                     "scroll", "blur"} -> "locator"
      [] action = "evaluate" -> "evaluate"
      [] action = "go_back" -> "go_back"
      [] action = "go_forward" -> "go_forward"
      [] action = "reload" -> "reload"
      [] action = "focus" -> "focus"
      [] action = "drag" -> "drag_and_drop"
      [] action = "upload_file" -> "set_input_files"
      [] action = "get_url" -> "url"
      [] action = "get_title" -> "title"
      [] OTHER -> "none"

\* What the branch does with the Locator page.locator(selector) gave it.
LocatorOperation(action) ==
    CASE action = "get_text" -> "first.inner_text"
      [] action = "get_attribute" -> "first.get_attribute"
      [] action = "get_value" -> "first.input_value"
      [] action = "list_elements" -> "all"
      [] action = "scroll" -> "scroll_into_view_if_needed"
      [] action = "blur" -> "blur"
      [] OTHER -> "none"

\* The keys a successful step adds to {'step', 'action', 'status'}.
ExtraKeys(action) ==
    CASE action = "screenshot" -> {"path"}
      [] action \in {"click", "fill", "type", "hover", "check", "uncheck",
                     "wait_selector", "scroll", "focus", "blur"} -> {"selector"}
      [] action = "press" -> {"selector", "key"}
      [] action \in {"select", "get_value"} -> {"selector", "value"}
      [] action = "wait" -> {"ms"}
      [] action = "wait_url" -> {"url_pattern"}
      [] action = "get_text" -> {"selector", "text"}
      [] action = "get_attribute" -> {"selector", "attribute", "value"}
      [] action = "list_elements" -> {"selector", "count", "texts"}
      [] action = "evaluate" -> {"result"}
      [] action = "drag" -> {"source", "target"}
      [] action = "upload_file" -> {"selector", "file"}
      [] action = "get_url" -> {"url"}
      [] action = "get_title" -> {"title"}
      [] OTHER -> {}

\* The Exception the branch raises before it reaches the page: the path
\* arithmetic of 'screenshot' on a filename that is no str, int(value) of
\* 'wait' on a string that is no number.  "none": the page is reached.
ArgError(step) ==
    CASE step.action = "screenshot" /\ Truthy(step.filename)
             /\ step.filename.t # "str" -> "TypeError"
      [] step.action = "wait" /\ Truthy(step.value)
             /\ ~PyInt(step.value).ok -> "ValueError"
      [] OTHER -> "none"

\* ms of 'wait': int(value) if value else 1000.
WaitMs(step) == IF Truthy(step.value) THEN PyInt(step.value).n ELSE DefaultWaitMs

\* path of 'screenshot': output_dir / (filename or f'screenshot-{i}.png').
ScreenshotPath(k, step) ==
    "./" \o (IF Truthy(step.filename) THEN step.filename.s
             ELSE "screenshot-" \o ToString(k) \o ".png")

\* ------------------------------------------------------------ result dicts
MkResult(k, action, status, err, keys, ms, path, texts) ==
    [step |-> k, action |-> action, status |-> status, error |-> err,
     keys |-> keys, ms |-> ms, path |-> path, texts |-> texts]

\* The dict a branch appends after its operation returned.
OkResult(k, step, inner) ==
    MkResult(k, step.action, "ok", "", ExtraKeys(step.action),
             IF step.action = "wait" THEN WaitMs(step) ELSE 0,
             IF step.action = "screenshot" THEN ScreenshotPath(k, step) ELSE "",
             IF step.action # "list_elements" THEN ""
             ELSE IF inner THEN "[no text]" ELSE "text")

\* The else branch.
UnknownResult(k, step) ==
    MkResult(k, step.action, "error", "Unknown action: " \o step.action,
             {"error"}, 0, "", "")

\* A handler that records nothing (variant).
OnExceptionSwallow(k, step, msg) == <<>>

\* except Exception as e: one error result for the step.
OnException(k, step, msg) ==
    <<MkResult(k, step.action, "error", msg, {"error"}, 0, "", "")>>

\* One use of `page` by a branch, with the library's answer to it.
PageCall(run, k, action, lib) ==
    [kind |-> "call", run |-> run, step |-> k, op |-> PageOperation(action),
     then |-> LocatorOperation(action), outcome |-> lib]

\* results.append(...), as an event after the calls that led to it.
RecordEvent(run, r) ==
    [kind |-> "record", run |-> run, step |-> r.step, op |-> "", then |-> "",
     outcome |-> r.status]

\* A branch that calls again after a failure (variant).
AttemptWithRetry(run, k, action, lib) ==
    IF lib = "raise"
    THEN <<PageCall(run, k, action, lib), PageCall(run, k, action, lib)>>
    ELSE <<PageCall(run, k, action, lib)>>

\* The calls one step makes on the page object: the branch's single use of `page`.
Attempt(run, k, action, lib) == <<PageCall(run, k, action, lib)>>

\* The Exception raised inside the try of one iteration, "none" if none is.
RaisedInTry(step, lib) ==
    IF PageOperation(step.action) = "none" THEN "none"
    ELSE IF ArgError(step) # "none" THEN ArgError(step)
    ELSE IF lib = "raise" THEN "LibraryError"
    ELSE "none"

\* A handler for the library's own error class only (variant).
HandlesOnlyLibraryErrors(exc) == exc = "LibraryError"

\* `except Exception` handles every class that derives from Exception.
Handles(exc) == exc \in {"TypeError", "ValueError", "LibraryError"}

\* One iteration of the for loop: what is appended to results, what is
\* invoked on the page, and whether an exception leaves page_action.  lib is
\* the library's answer ("ok" or "raise") should the operation be reached;
\* inner tells, for list_elements, that an element's inner_text() raised
\* (caught by the inner handler: '[no text]').
ProcessStep(run, k, step, lib, inner) ==
    LET exc == RaisedInTry(step, lib)
        reached == PageOperation(step.action) # "none" /\ ArgError(step) = "none"
        invoked == IF reached THEN Attempt(run, k, step.action, lib) ELSE <<>>
    IN  IF PageOperation(step.action) = "none"
        THEN [recorded |-> <<UnknownResult(k, step)>>, invoked |-> invoked,
              escaped |-> FALSE]
        ELSE IF exc = "none"
        THEN [recorded |-> <<OkResult(k, step, inner)>>, invoked |-> invoked,
              escaped |-> FALSE]
        ELSE IF Handles(exc)
        THEN [recorded |-> OnException(k, step, exc), invoked |-> invoked,
              escaped |-> FALSE]
        ELSE [recorded |-> <<>>, invoked |-> invoked, escaped |-> TRUE]

\* The events of one iteration, in the order the code produces them.
StepEvents(run, out) ==
    out.invoked \o [j \in 1..Len(out.recorded) |-> RecordEvent(run, out.recorded[j])]

\* A loop that stops at the first failed step (variant).
NextIndexAbort(k, n, recorded) ==
    IF \E j \in 1..Len(recorded) : recorded[j].status = "error" THEN n ELSE k + 1

\* The loop goes on to the next step whatever the step's outcome.
NextIndex(k, n, recorded) == k + 1

\* An invocation that starts from an empty list (variant).
ResultsAtEntryCleared(rs) == <<>>

\* `nonlocal results`: an invocation goes on with the list as it is.
ResultsAtEntry(rs) == rs

\* `return results` and `lambda: results` both give the closure's own list.
PageActionReturns == "results"

GetResults == "results"

LibOutcomes == {"ok", "raise"}

\* ------------------------------------------------- page_action, step by step
EnterPageAction ==
    /\ pc' = "page_action"
    /\ i' = 0
    /\ runs' = runs + 1
    /\ results' = ResultsAtEntry(results)
    /\ UNCHANGED <<actions, returned, trace>>

\* A direct caller invokes page_action(page) once on a fresh closure.
CallPageAction ==
    /\ pc = "created"
    /\ caller = "direct"
    /\ runs = 0
    /\ EnterPageAction
    /\ UNCHANGED <<caller, mainVars, execVars>>

PageActionStep ==
    /\ pc = "page_action"
    /\ i < Len(actions)
    /\ \E lib \in LibOutcomes, inner \in BOOLEAN :
         LET out == ProcessStep(runs, i, actions[i + 1], lib, inner) IN
         /\ results' = results \o out.recorded
         /\ trace' = trace \o StepEvents(runs, out)
         /\ i' = NextIndex(i, Len(actions), out.recorded)
         /\ pc' = IF out.escaped THEN "escaped" ELSE pc
    /\ UNCHANGED <<caller, actions, returned, runs, mainVars, execVars>>

PageActionReturn ==
    /\ pc = "page_action"
    /\ i >= Len(actions)
    /\ returned' = PageActionReturns
    /\ pc' = IF caller = "fetcher" THEN "fetching" ELSE "created"
    /\ UNCHANGED <<caller, actions, results, i, runs, trace, mainVars, execVars>>

\* ------------------------------------------------------------------ execute
\* Not yet assigned: no configuration, no readable document, no response.
NoConfig == [k \in {} |-> Null]
NoDoc == [valid |-> FALSE, json |-> NoConfig]
NoResponse == [hasUrl |-> FALSE, url |-> "", status |-> 0]

\* A configuration dict: a function on the keys that are present.
OptActions(present, list) == [present |-> present, list |-> list]

MkConfig(u, m, a, t, sc, rc, udd) ==
    [k \in {"timeout", "solveCloudflare", "realChrome", "userDataDir"}
           \cup (IF u = "None" THEN {} ELSE {"url"})
           \cup (IF m = "None" THEN {} ELSE {"method"})
           \cup (IF a.present THEN {"actions"} ELSE {}) |->
        CASE k = "url" -> u
          [] k = "method" -> m
          [] k = "actions" -> a.list
          [] k = "timeout" -> t
          [] k = "solveCloudflare" -> sc
          [] k = "realChrome" -> rc
          [] k = "userDataDir" -> udd]

\* config.get(key, default)
ConfigGet(cfg, key, default) == IF key \in DOMAIN cfg THEN cfg[key] ELSE default

Methods == {"stealthy-fetch", "fetch", "get", "post"}
Timeouts == {DefaultTimeout, 1999}
UserDataDirs == {Null, JStr("/profile")}
ActionLists == SeqsUpTo(ConfigSteps, MaxActions)

Configs ==
    {MkConfig(u, m, a, t, sc, rc, udd) :
        u \in {"None", "http://site"}, m \in Methods \cup {"None"},
        a \in {OptActions(FALSE, <<>>)} \cup {OptActions(TRUE, l) : l \in ActionLists},
        t \in Timeouts, sc \in BOOLEAN, rc \in BOOLEAN, udd \in UserDataDirs}

MethodOf(cfg) == ConfigGet(cfg, "method", "stealthy-fetch")

\* The fetcher the method selects.
FetcherFor(method) ==
    CASE method = "stealthy-fetch" -> "StealthyFetcher.fetch"
      [] method = "fetch" -> "DynamicFetcher.fetch"
      [] OTHER -> "Fetcher.get"

\* solve_cloudflare set before the method is looked at (variant).
KwargKeysSolveAnyMethod(cfg) ==
    LET base == {"headless", "page_action", "timeout", "network_idle"}
                \cup (IF ConfigGet(cfg, "realChrome", FALSE) THEN {"real_chrome"} ELSE {})
                \cup (IF Truthy(ConfigGet(cfg, "userDataDir", Null))
                      THEN {"user_data_dir"} ELSE {})
                \cup (IF ConfigGet(cfg, "solveCloudflare", FALSE)
                      THEN {"solve_cloudflare"} ELSE {})
    IN  IF MethodOf(cfg) \in {"stealthy-fetch", "fetch"} THEN base
        ELSE base \ {"page_action", "network_idle"}

\* The keys of fetch_kwargs at the call of the fetcher.
KwargKeys(cfg) ==
    LET base == {"headless", "page_action", "timeout", "network_idle"}
                \cup (IF ConfigGet(cfg, "realChrome", FALSE) THEN {"real_chrome"} ELSE {})
                \cup (IF Truthy(ConfigGet(cfg, "userDataDir", Null))
                      THEN {"user_data_dir"} ELSE {})
    IN  CASE MethodOf(cfg) = "stealthy-fetch" ->
               base \cup (IF ConfigGet(cfg, "solveCloudflare", FALSE)
                          THEN {"solve_cloudflare"} ELSE {})
          [] MethodOf(cfg) = "fetch" -> base
          [] OTHER -> base \ {"page_action", "network_idle"}

\* fetch_kwargs at the call of the fetcher.
FetchKwargs(cfg) ==
    [k \in KwargKeys(cfg) |->
        CASE k = "headless" -> ConfigGet(cfg, "headless", JTrue)
          [] k = "page_action" -> JStr("page_action")
          [] k = "timeout" ->
               IF MethodOf(cfg) \in {"stealthy-fetch", "fetch"}
               THEN JInt(ConfigGet(cfg, "timeout", DefaultTimeout))
               ELSE JInt(ConfigGet(cfg, "timeout", DefaultTimeout) \div MsPerSecond)
          [] k = "network_idle" -> ConfigGet(cfg, "networkIdle", JTrue)
          [] k = "real_chrome" -> JTrue
          [] k = "user_data_dir" -> ConfigGet(cfg, "userDataDir", Null)
          [] k = "solve_cloudflare" -> JTrue]

\* The list a reference to a list object names.
ListOf(ref) == IF ref = "results" THEN results ELSE <<>>

\* A result whose 'actions' is a new empty list (variant).
ExecuteResultFreshList(cfg, resp) ==
    [url |-> cfg["url"],
     finalUrl |-> IF resp.hasUrl THEN resp.url ELSE cfg["url"],
     status |-> resp.status,
     method |-> MethodOf(cfg),
     actions |-> <<>>]

\* The dict execute returns.
ExecuteResult(cfg, resp) ==
    [url |-> cfg["url"],
     finalUrl |-> IF resp.hasUrl THEN resp.url ELSE cfg["url"],
     status |-> resp.status,
     method |-> MethodOf(cfg),
     actions |-> ListOf(GetResults)]

Responses ==
    {[hasUrl |-> TRUE, url |-> "http://final", status |-> 200],
     [hasUrl |-> FALSE, url |-> "", status |-> 403]}

\* execute up to its call of the fetcher; config['url'] raises KeyError.
ExecuteRaisesKeyError ==
    /\ pc = "execute"
    /\ "url" \notin DOMAIN config
    /\ error' = "'url'"
    /\ pc' = "raised"
    /\ UNCHANGED <<caller, config, fetchLog, response, result, closureVars, mainVars>>

ExecuteCallsFetcher ==
    /\ pc = "execute"
    /\ "url" \in DOMAIN config
    /\ actions' = ConfigGet(config, "actions", <<>>)
    /\ results' = <<>>
    /\ fetchLog' = Append(fetchLog, [fn |-> FetcherFor(MethodOf(config)),
                                     url |-> config["url"],
                                     kwargs |-> FetchKwargs(config)])
    /\ pc' = "fetching"
    /\ UNCHANGED <<caller, config, response, result, error, returned, i, runs, trace,
                   mainVars>>

\* The library: a fetcher given page_action calls it on the page it opened.
FetcherInvokesPageAction ==
    /\ pc = "fetching"
    /\ caller = "fetcher"
    /\ "page_action" \in DOMAIN fetchLog[Len(fetchLog)].kwargs
    /\ runs < MaxRuns
    /\ EnterPageAction
    /\ UNCHANGED <<caller, mainVars, execVars>>

FetcherReturns ==
    /\ pc = "fetching"
    /\ \E resp \in Responses : response' = resp
    /\ pc' = "fetched"
    /\ UNCHANGED <<caller, config, fetchLog, result, error, closureVars, mainVars>>

FetcherRaises ==
    /\ pc = "fetching"
    /\ error' = "fetch failed"
    /\ pc' = "raised"
    /\ UNCHANGED <<caller, config, fetchLog, response, result, closureVars, mainVars>>

ExecuteReturns ==
    /\ pc = "fetched"
    /\ result' = ExecuteResult(config, response)
    /\ pc' = "returned"
    /\ UNCHANGED <<caller, config, fetchLog, response, error, closureVars, mainVars>>

\* --------------------------------------------------------------------- main
\* The argparse namespace.  config, url and user_data_dir are None unless the
\* option is given; actions is the decoded --actions text.
MkArgs(st, cf, u, m, a, t, sc, rc, udd) ==
    [stdin |-> st, config |-> cf, url |-> u, method |-> m, actions |-> a,
     no_headless |-> FALSE, timeout |-> t, solve_cloudflare |-> sc,
     real_chrome |-> rc, network_idle |-> TRUE, output_dir |-> ".",
     user_data_dir |-> udd]

\* The chain with --config tested before --stdin (variant).
SelectSourceConfigFirst(a) ==
    IF Truthy(a.config) THEN "file"
    ELSE IF a.stdin THEN "stdin"
    ELSE IF Truthy(a.url) THEN "cli"
    ELSE "none"

\* The if / elif chain choosing where config comes from.
SelectSource(a) ==
    IF a.stdin THEN "stdin"
    ELSE IF Truthy(a.config) THEN "file"
    ELSE IF Truthy(a.url) THEN "cli"
    ELSE "none"

\* The dict built from the command-line flags.
CliConfig(a) ==
    [url |-> a.url.s,
     actions |-> IF a.actions.present THEN a.actions.list ELSE <<>>,
     method |-> a.method,
     headless |-> IF a.no_headless THEN JInt(0) ELSE JTrue,
     timeout |-> a.timeout,
     solveCloudflare |-> a.solve_cloudflare,
     realChrome |-> a.real_chrome,
     networkIdle |-> IF a.network_idle THEN JTrue ELSE JInt(0),
     outputDir |-> a.output_dir,
     userDataDir |-> a.user_data_dir]

\* The document the chosen branch decodes.
DocFor(src) == IF src = "stdin" THEN stdinDoc ELSE fileDoc

\* No source: print_help() and sys.exit(1).
MainPrintsHelp ==
    /\ pc = "main"
    /\ SelectSource(args) = "none"
    /\ source' = "none"
    /\ stdout' = Append(stdout, [kind |-> "help", body |-> NoConfig])
    /\ exitCode' = 1
    /\ pc' = "exit"
    /\ UNCHANGED <<args, stdinDoc, fileDoc, stderr, caller, execVars, closureVars>>

MainLoadsConfig ==
    /\ pc = "main"
    /\ SelectSource(args) # "none"
    /\ source' = SelectSource(args)
    /\ \/ /\ SelectSource(args) = "cli"
          /\ config' = CliConfig(args)
       \/ /\ SelectSource(args) \in {"stdin", "file"}
          /\ DocFor(SelectSource(args)).valid
          /\ config' = DocFor(SelectSource(args)).json
    /\ pc' = "execute"
    /\ UNCHANGED <<args, stdinDoc, fileDoc, stdout, stderr, exitCode, caller,
                   fetchLog, response, result, error, closureVars>>

\* json.load raises outside the try: the interpreter prints the traceback and
\* exits with code 1.
MainLoadFails ==
    /\ pc = "main"
    /\ SelectSource(args) \in {"stdin", "file"}
    /\ ~DocFor(SelectSource(args)).valid
    /\ source' = SelectSource(args)
    /\ stderr' = Append(stderr, [kind |-> "traceback", body |-> [error |-> "JSONDecodeError"]])
    /\ exitCode' = 1
    /\ pc' = "exit"
    /\ UNCHANGED <<args, stdinDoc, fileDoc, stdout, caller, execVars, closureVars>>

\* print(json.dumps(result, ...)) and the normal end of the process.
MainPrintsResult ==
    /\ pc = "returned"
    /\ stdout' = Append(stdout, [kind |-> "json", body |-> result])
    /\ exitCode' = 0
    /\ pc' = "exit"
    /\ UNCHANGED <<args, stdinDoc, fileDoc, source, stderr, caller, execVars,
                   closureVars>>

\* The error object printed to stdout (variant).
MainPrintsErrorToStdout ==
    /\ pc = "raised"
    /\ stdout' = Append(stdout, [kind |-> "json", body |-> [error |-> error]])
    /\ exitCode' = 1
    /\ pc' = "exit"
    /\ UNCHANGED <<args, stdinDoc, fileDoc, source, stderr, caller, execVars,
                   closureVars>>

\* except Exception as e: the error object on stderr, sys.exit(1).
MainPrintsError ==
    /\ pc = "raised"
    /\ stderr' = Append(stderr, [kind |-> "json", body |-> [error |-> error]])
    /\ exitCode' = 1
    /\ pc' = "exit"
    /\ UNCHANGED <<args, stdinDoc, fileDoc, source, stdout, caller, execVars,
                   closureVars>>

\* -------------------------------------------------------------- no inputs yet
NoArgs ==
    MkArgs(FALSE, Null, Null, "stealthy-fetch", OptActions(FALSE, <<>>),
           DefaultTimeout, FALSE, FALSE, Null)

\* One run of page_action on the closure create_page_action(actions, '.')
\* returned, for every action list.
PAInit ==
    /\ actions \in SeqsUpTo(AllSteps, MaxActions)
    /\ results = <<>>
    /\ returned = "none"
    /\ i = 0
    /\ runs = 0
    /\ trace = <<>>
    /\ pc = "created"
    /\ caller = "direct"
    /\ args = NoArgs
    /\ stdinDoc = NoDoc
    /\ fileDoc = NoDoc
    /\ source = "none"
    /\ config = NoConfig
    /\ fetchLog = <<>>
    /\ response = NoResponse
    /\ result = NoConfig
    /\ error = ""
    /\ stdout = <<>>
    /\ stderr = <<>>
    /\ exitCode = -1

PANext == CallPageAction \/ PageActionStep \/ PageActionReturn

PASpec == PAInit /\ [][PANext]_vars

\* execute(config) for every configuration.
ExecInit ==
    /\ config \in Configs
    /\ pc = "execute"
    /\ caller = "fetcher"
    /\ actions = <<>>
    /\ results = <<>>
    /\ returned = "none"
    /\ i = 0
    /\ runs = 0
    /\ trace = <<>>
    /\ args = NoArgs
    /\ stdinDoc = NoDoc
    /\ fileDoc = NoDoc
    /\ source = "none"
    /\ fetchLog = <<>>
    /\ response = NoResponse
    /\ result = NoConfig
    /\ error = ""
    /\ stdout = <<>>
    /\ stderr = <<>>
    /\ exitCode = -1

ExecNext ==
    \/ ExecuteRaisesKeyError
    \/ ExecuteCallsFetcher
    \/ FetcherInvokesPageAction
    \/ PageActionStep
    \/ PageActionReturn
    \/ FetcherReturns
    \/ FetcherRaises
    \/ ExecuteReturns

ExecSpec == ExecInit /\ [][ExecNext]_vars

\* One run of the program for every command line and every document.
OptStrings(x) == {Null, JStr(""), JStr(x)}
CliMethods == {"get", "fetch", "stealthy-fetch"}

MkDoc(u, m, l) ==
    [valid |-> TRUE,
     json |-> MkConfig(u, m, OptActions(TRUE, l), DefaultTimeout, FALSE, FALSE, Null)]

\* A document is unreadable, or carries the method and the actions with or
\* without a url of its own.
DocsWithUrl(u, m, l) == {NoDoc, MkDoc("None", m, l), MkDoc(u, m, l)}

Init ==
    /\ \E m \in CliMethods, l \in ActionLists :
         /\ args \in {MkArgs(st, cf, u, m, OptActions(TRUE, l), DefaultTimeout,
                             FALSE, FALSE, Null) :
                        st \in BOOLEAN, cf \in OptStrings("cfg.json"),
                        u \in OptStrings("http://cli")}
         /\ stdinDoc \in DocsWithUrl("http://stdin", m, l)
         /\ fileDoc \in DocsWithUrl("http://file", m, l)
    /\ source = "none"
    /\ config = NoConfig
    /\ pc = "main"
    /\ caller = "fetcher"
    /\ actions = <<>>
    /\ results = <<>>
    /\ returned = "none"
    /\ i = 0
    /\ runs = 0
    /\ trace = <<>>
    /\ fetchLog = <<>>
    /\ response = NoResponse
    /\ result = NoConfig
    /\ error = ""
    /\ stdout = <<>>
    /\ stderr = <<>>
    /\ exitCode = -1

Next ==
    \/ MainPrintsHelp
    \/ MainLoadsConfig
    \/ MainLoadFails
    \/ ExecuteRaisesKeyError
    \/ ExecuteCallsFetcher
    \/ FetcherInvokesPageAction
    \/ PageActionStep
    \/ PageActionReturn
    \/ FetcherReturns
    \/ FetcherRaises
    \/ ExecuteReturns
    \/ MainPrintsResult
    \/ MainPrintsError

Spec == Init /\ [][Next]_vars

\* ================================================================== claims
\* ------------------------------------------------- helpers of the formulas
\* Positions of the trace where step k of run r used the page object.
CallsOf(r, k) ==
    {p \in 1..Len(trace) :
        trace[p].kind = "call" /\ trace[p].run = r /\ trace[p].step = k}

\* Positions of the trace where a result of step k of run r was appended.
RecordsOf(r, k) ==
    {p \in 1..Len(trace) :
        trace[p].kind = "record" /\ trace[p].run = r /\ trace[p].step = k}

\* Steps the current or the finished run has gone past.
StepsDone == IF pc = "page_action" THEN i ELSE IF runs >= 1 THEN Len(actions) ELSE 0

\* The first run of page_action has ended.
FirstRunEnded == pc = "created" /\ runs = 1

\* The step's arguments reach the page: no 'wait' on text that is no number,
\* no 'screenshot' to a filename that is a number.
ArgumentsConvert(st) ==
    /\ ~(st.action = "wait" /\ st.value.t = "str" /\ st.value.s \notin {"", "250"})
    /\ ~(st.action = "screenshot" /\ st.filename.t = "int" /\ st.filename.n # 0)

\* C1: one run of page_action on a list of n action objects records exactly
\* one result per action: while it runs there is one result per step gone
\* past, when it ends results has length n, and entry k has step == k and the
\* action value of the k-th action, for every mix of succeeding, failing and
\* unrecognised steps.
C1_OneResultPerAction ==
    /\ Len(results) = StepsDone
    /\ FirstRunEnded => Len(results) = Len(actions)
    /\ \A k \in 1..Len(results) :
         /\ k <= Len(actions)
         /\ results[k].step = k - 1
         /\ results[k].action = actions[k].action

C1_Witness ==
    /\ FirstRunEnded
    /\ Len(actions) >= 2
    /\ Len(results) = Len(actions)
    /\ \E j, k \in 1..Len(results) :
         /\ results[j].status = "ok"
         /\ results[k].error = "LibraryError"

\* C2: every failure of a step is caught and recorded for that step: the
\* result of step k has status 'ok' exactly when the action is recognised and
\* its operation on the page returned without raising, otherwise status
\* 'error' with an error message; no exception leaves page_action.
C2_FailuresCaughtAndRecorded ==
    /\ pc # "escaped"
    /\ \A k \in 1..Len(results) :
         LET r == results[k] IN
         /\ k <= Len(actions)
         /\ r.status \in {"ok", "error"}
         /\ r.status = "ok" <=>
              /\ actions[k].action \in RecognisedActions
              /\ \E p \in CallsOf(1, k - 1) : trace[p].outcome = "ok"
         /\ r.status = "error" => r.error # "" /\ "error" \in r.keys
         /\ r.status = "ok" => r.error = "" /\ "error" \notin r.keys

C2_Witness ==
    /\ FirstRunEnded
    /\ \E j, k \in 1..Len(results) :
         /\ results[j].status = "error" /\ results[j].error = "ValueError"
         /\ results[k].status = "error" /\ results[k].error = "LibraryError"

\* C3 as amended: a step uses the page object at most once; a recognised
\* action uses it exactly once, through the operation its branch names, unless
\* converting the step's arguments raises before the call ('wait' with a
\* value that is no number, 'screenshot' with a filename that is no str), and
\* then, as for an unrecognised action, not at all.
C3_AtMostOneOperationPerStep ==
    \A k \in 0..(StepsDone - 1) :
        LET st == actions[k + 1]
            c == CallsOf(1, k)
        IN  /\ Cardinality(c) <= 1
            /\ (st.action \in RecognisedActions /\ ArgumentsConvert(st))
                   => Cardinality(c) = 1
            /\ (st.action \notin RecognisedActions \/ ~ArgumentsConvert(st))
                   => c = {}
            /\ \A p \in c : trace[p].op \notin {"none", ""}

C3_Witness ==
    /\ FirstRunEnded
    /\ \E j, k \in 1..Len(actions) :
         /\ actions[j] = MkStep("wait", JStr("abc"), Null)
         /\ CallsOf(1, j - 1) = {}
         /\ actions[k].action = "get_title"
         /\ \E p \in CallsOf(1, k - 1) : trace[p].op = "title"

\* C3 as claimed: processing a step of any recognised action invokes exactly
\* one operation of the page object.
C3_ExactlyOneOperationPerRecognisedStep ==
    \A k \in 0..(StepsDone - 1) :
        actions[k + 1].action \in RecognisedActions
            => Cardinality(CallsOf(1, k)) = 1

\* C6: steps are processed in list order and none is skipped: when step j
\* uses the page, every earlier step has used it (if it does at all) and has
\* had its result recorded; a step's call comes before its own result; and a
\* step whose arguments reach the page is invoked whatever happened to the
\* steps before it.
C6_StepsInOrderNoneSkipped ==
    /\ \A q \in 1..Len(trace) :
         \A k \in 0..(trace[q].step - 1) :
            /\ RecordsOf(1, k) # {}
            /\ \A p \in CallsOf(1, k) \cup RecordsOf(1, k) : p < q
    /\ \A k \in 0..(StepsDone - 1) :
         /\ RecordsOf(1, k) # {}
         /\ \A p \in CallsOf(1, k) : \A q \in RecordsOf(1, k) : p < q
         /\ (actions[k + 1].action \in RecognisedActions
                /\ ArgumentsConvert(actions[k + 1])) => CallsOf(1, k) # {}

C6_Witness ==
    /\ FirstRunEnded
    /\ Len(actions) >= 2
    /\ \E p \in CallsOf(1, 0) : trace[p].outcome = "raise"
    /\ \E q \in CallsOf(1, 1) : \A p \in CallsOf(1, 0) \cup RecordsOf(1, 0) : p < q

\* Invocations of page_action that have returned.
CompletedRuns == IF pc = "page_action" THEN runs - 1 ELSE runs

\* execute gave page_action to the fetcher it called.
PageActionPassed ==
    Len(fetchLog) >= 1 /\ "page_action" \in DOMAIN fetchLog[1].kwargs

BrowserMethods == {"stealthy-fetch", "fetch"}

\* C4 as amended: when execute(config) returns, the result holds url,
\* finalUrl, status, method and, under 'actions', the closure's results list:
\* one result per action for each time the fetcher ran page_action (one per
\* action of config['actions'], in order, when it ran once), and the empty
\* list for every method other than 'stealthy-fetch' and 'fetch', where
\* page_action is not passed and no action runs.
C4_ResultHoldsOutcomeAndRecordedSteps ==
    pc = "returned" =>
        LET acts == ConfigGet(config, "actions", <<>>) IN
        /\ result.url = "http://site"
        /\ result.finalUrl = IF response.hasUrl THEN "http://final" ELSE "http://site"
        /\ result.status = response.status
        /\ result.status \in {200, 403}
        /\ result.method = IF "method" \in DOMAIN config THEN config["method"]
                           ELSE "stealthy-fetch"
        /\ result.actions = results
        /\ Len(result.actions) = runs * Len(acts)
        /\ result.method \notin BrowserMethods => result.actions = <<>>
        /\ runs = 1 =>
             \A k \in 1..Len(acts) :
                /\ result.actions[k].step = k - 1
                /\ result.actions[k].action = acts[k].action

C4_Witness ==
    /\ pc = "returned"
    /\ "method" \in DOMAIN config
    /\ config["method"] = "get"
    /\ Len(ConfigGet(config, "actions", <<>>)) = 2
    /\ result.actions = <<>>
    /\ result.status = 200

\* C4 as claimed: for every method, result['actions'] holds one result per
\* action of config['actions'] (granted that a fetcher given page_action ran
\* it exactly once).
C4_OneResultPerActionForEveryMethod ==
    (pc = "returned" /\ (PageActionPassed => runs = 1)) =>
        LET acts == ConfigGet(config, "actions", <<>>) IN
        /\ Len(result.actions) = Len(acts)
        /\ \A k \in 1..Len(acts) :
             /\ result.actions[k].step = k - 1
             /\ result.actions[k].action = acts[k].action

\* C7 as amended: no retries: within one run of page_action each step's
\* operation is attempted at most once, failed or not, and execute calls the
\* fetcher at most once per call, exactly once in every call that gets as far
\* as the fetch (so in every call that returns).
C7_NoRetries ==
    /\ \A r \in 1..runs : \A k \in 0..(Len(actions) - 1) :
         Cardinality(CallsOf(r, k)) <= 1
    /\ Len(fetchLog) <= 1
    /\ pc \in {"fetching", "page_action", "fetched", "returned"} => Len(fetchLog) = 1
    /\ pc = "execute" => Len(fetchLog) = 0

C7_Witness ==
    /\ pc = "returned"
    /\ Len(fetchLog) = 1
    /\ \E p \in 1..Len(trace) : trace[p].kind = "call" /\ trace[p].outcome = "raise"

\* C7 as claimed: the fetcher is called exactly once per call of execute,
\* however the call ends.
C7_FetcherCalledExactlyOncePerExecute ==
    pc \in {"returned", "raised"} => Len(fetchLog) = 1

\* C8: the closure's results list is append-only over every sequence of
\* page_action invocations: after m complete invocations over n actions it
\* holds m*n entries, step indices 0..n-1 repeated m times (plus one entry per
\* step gone past in a running invocation); page_action returns the very list
\* get_results() gives, which is the list execute puts in its result.
C8_ResultsAppendOnly ==
    LET n == Len(actions) IN
    /\ Len(results) = CompletedRuns * n + (IF pc = "page_action" THEN i ELSE 0)
    /\ \A k \in 1..Len(results) :
         /\ n > 0
         /\ results[k].step = (k - 1) % n
         /\ results[k].action = actions[((k - 1) % n) + 1].action
    /\ returned \in {"none", GetResults}
    /\ runs > CompletedRuns => returned = IF runs = 1 THEN "none" ELSE "results"
    /\ CompletedRuns >= 1 => returned = "results"
    /\ pc = "returned" => result.actions = results

C8_Witness ==
    /\ pc = "returned"
    /\ runs = 2
    /\ Len(actions) = 2
    /\ Len(results) = 4
    /\ returned = GetResults
    /\ result.actions = results

\* C9: page_action is passed exactly when method is 'stealthy-fetch' or
\* 'fetch'; any other method calls Fetcher.get without page_action and
\* network_idle and with timeout // 1000, so no action is executed;
\* solve_cloudflare is passed only for 'stealthy-fetch' with a truthy
\* solveCloudflare; real_chrome and user_data_dir are passed for every method
\* when truthy.
C9_FetcherArguments ==
    Len(fetchLog) >= 1 =>
        LET call == fetchLog[1]
            kw == call.kwargs
            m == IF "method" \in DOMAIN config THEN config["method"]
                 ELSE "stealthy-fetch"
        IN  /\ "page_action" \in DOMAIN kw <=> m \in BrowserMethods
            /\ "network_idle" \in DOMAIN kw <=> m \in BrowserMethods
            /\ m = "stealthy-fetch" => call.fn = "StealthyFetcher.fetch"
            /\ m = "fetch" => call.fn = "DynamicFetcher.fetch"
            /\ m \in BrowserMethods => kw["timeout"] = JInt(config["timeout"])
            /\ m \notin BrowserMethods =>
                 /\ call.fn = "Fetcher.get"
                 /\ kw["timeout"] = JInt(config["timeout"] \div 1000)
                 /\ config["timeout"] = 1999 => kw["timeout"].n = 1
                 /\ runs = 0 /\ trace = <<>> /\ results = <<>>
            /\ "solve_cloudflare" \in DOMAIN kw <=>
                 (m = "stealthy-fetch" /\ config["solveCloudflare"])
            /\ "real_chrome" \in DOMAIN kw <=> config["realChrome"]
            /\ "user_data_dir" \in DOMAIN kw <=> Truthy(config["userDataDir"])
            /\ call.url = config["url"]

C9_Witness ==
    /\ pc = "returned"
    /\ "method" \in DOMAIN config
    /\ config["method"] = "post"
    /\ config["timeout"] = 1999
    /\ config["solveCloudflare"]
    /\ Len(ConfigGet(config, "actions", <<>>)) >= 1
    /\ DOMAIN fetchLog[1].kwargs = {"headless", "timeout", "real_chrome", "user_data_dir"}

\* The option carries a value that is not the empty string.
NonEmpty(v) == v.t = "str" /\ v.s # ""

\* The option is on the command line, whatever its value.
Given(v) == v.t # "null"

\* C5 as amended: main takes the configuration from exactly one source by
\* fixed precedence: stdin when --stdin is given (even with --config and
\* --url), else the JSON file when --config is given with a non-empty value,
\* else the flags when --url is given with a non-empty value; when none of
\* these holds, execute is never called, help is printed and the exit code
\* is 1.
C5_SourceByPrecedence ==
    pc # "main" =>
        /\ args.stdin => source = "stdin"
        /\ (~args.stdin /\ NonEmpty(args.config)) => source = "file"
        /\ (~args.stdin /\ ~NonEmpty(args.config) /\ NonEmpty(args.url))
               => source = "cli"
        /\ (~args.stdin /\ ~NonEmpty(args.config) /\ ~NonEmpty(args.url))
               => /\ source = "none"
                  /\ pc = "exit"
                  /\ exitCode = 1
                  /\ Len(stdout) = 1 /\ stdout[1].kind = "help"
                  /\ stderr = <<>>
                  /\ config = NoConfig /\ fetchLog = <<>> /\ error = ""
                  /\ DOMAIN result = {} /\ runs = 0
        /\ (source = "stdin" /\ stdinDoc.valid) => config = stdinDoc.json
        /\ (source = "file" /\ fileDoc.valid) => config = fileDoc.json
        /\ source = "cli" =>
             /\ config["url"] = "http://cli"
             /\ config["method"] = args.method
             /\ config["actions"] = args.actions.list

C5_Witness ==
    /\ pc = "exit"
    /\ args.stdin /\ NonEmpty(args.config) /\ NonEmpty(args.url)
    /\ source = "stdin"
    /\ config = stdinDoc.json
    /\ "url" \in DOMAIN config
    /\ Len(stdout) = 1 /\ stdout[1].kind = "json"
    /\ stdout[1].body.url = "http://stdin"

\* C5 as claimed: the source follows from which options are given: stdin for
\* --stdin, else the file for --config, else the flags for --url, else none.
C5_SourceByOptionsGiven ==
    pc # "main" =>
        source = IF args.stdin THEN "stdin"
                 ELSE IF Given(args.config) THEN "file"
                 ELSE IF Given(args.url) THEN "cli"
                 ELSE "none"

\* A configuration has been loaded: a source was chosen and its document decoded.
ConfigLoaded ==
    /\ pc # "main"
    /\ source # "none"
    /\ source = "stdin" => stdinDoc.valid
    /\ source = "file" => fileDoc.valid

\* C10: once a configuration is loaded main ends in exactly one of two ways:
\* execute returned, the result is printed to stdout and the process ends
\* normally; or execute raised, {'error': message} is printed to stderr,
\* nothing to stdout (recorded steps are dropped) and the exit code is 1.
\* Nothing is printed before.
C10_ResultOrError ==
    ConfigLoaded =>
        /\ pc # "exit" => stdout = <<>> /\ stderr = <<>> /\ exitCode = -1
        /\ pc = "exit" =>
             \/ /\ DOMAIN result # {}
                /\ error = ""
                /\ Len(stdout) = 1
                /\ stdout[1].kind = "json"
                /\ stdout[1].body = result
                /\ stderr = <<>>
                /\ exitCode = 0
             \/ /\ DOMAIN result = {}
                /\ error # ""
                /\ Len(stderr) = 1
                /\ stderr[1].kind = "json"
                /\ stderr[1].body = [error |-> error]
                /\ stdout = <<>>
                /\ exitCode = 1

C10_Witness ==
    /\ ConfigLoaded
    /\ pc = "exit"
    /\ error = "fetch failed"
    /\ Len(results) >= 1
    /\ stdout = <<>>
    /\ Len(stderr) = 1
    /\ exitCode = 1

====
